---- MODULE Spec2Model ----
(***************************************************************************)
(* DailyFlow (src/unnamed/part_001 = App.jsx + main.jsx, part_000 = the    *)
(* compact App.jsx): the usePomodoro hook, the habit handlers of App, and  *)
(* App's state with its persisted record.                                  *)
(*                                                                         *)
(* React is modelled at the level the hooks are written against: an event  *)
(* handler (a click, the interval callback) enqueues its state updates,    *)
(* the component re-renders with all of them applied, and the effects      *)
(* whose dependencies changed run before the next event is delivered.      *)
(* One action is one such event together with its render and effects.      *)
(***************************************************************************)
EXTENDS Integers, Sequences, FiniteSets, TLC

\* ---------------------------------------------------------------- bounds
MaxMinutes == 2          \* configured durations range over 1..MaxMinutes
MaxNegMinutes == 1       \* invalid persisted durations go down to -MaxNegMinutes
MaxCycles == 2           \* settings.cycles ranges over 1..MaxCycles
MaxCyclesDone == 4       \* ticks stop once cyclesDoneRef.current reaches this
MaxHabits == 2           \* habits ever added
MaxNow == 4              \* the clock stops here
PartsPerDay == 2         \* clock steps per day
MaxCalls == 3            \* toggles of one habit on one day
MaxTodos == 1            \* todos ever added
MaxTz == 1               \* the local timezone is within MaxTz clock steps of UTC

\* ------------------------------------------------------ program constants
SecondsPerMinute == 60
FallbackWork == 25
FallbackBreak == 5
DefaultWork == 25
DefaultShort == 5
DefaultLong == 15
DefaultCycles == 4

VARIABLES
  strictDev,     \* TRUE: development build, <StrictMode> invokes updaters twice
  settings,      \* usePomodoro: settings (never replaced: App does not use setSettings)
  mode,          \* usePomodoro: mode, "work" | "short" | "long"
  secondsLeft,   \* usePomodoro: secondsLeft
  running,       \* usePomodoro: running
  cyclesDone,    \* usePomodoro: cyclesDoneRef.current
  timer,         \* TRUE while an interval created by the tick effect is registered
  lastOp,        \* history: the event handled last
  lastArg,       \* history: the mode given to setPreset when lastOp = "preset"
  wasRunning,    \* history: running, as the event handled last found it
  clean,         \* history: no pause/setPreset since construction or the last reset
  ticks,         \* history: ticks since construction or the last reset (while clean)
  workDone,      \* history: work phases exhausted since then (while clean)
  habits,        \* App: habits, a list of {id, title, toggledToday, streak, lastSeen}
  now,           \* the clock new Date() reads, in parts of a UTC day since the epoch
  nextId,        \* the number of ids uid() has handed out
  habitOp,       \* history: the App handler run last and the id it was given
                 \*   (after construction: what the storage held, "bootAbsent",
                 \*   "bootGarbage" or "init" for a record; after a reload:
                 \*   the number of habits the daily reset switched off)
  dayLog,        \* history: per habit id, the calls of toggleHabit on the day
                 \*   lastSeen, the streak before the first of them, and the
                 \*   days on which toggleHabit was called
  dark,          \* App: dark
  todos,         \* App: todos, a list of {id, text, done, created}
  notes,         \* App: notes
  storage,       \* localStorage: whether "dailyflow_v1" is set, and its text
  nextTodo,      \* the number of todo ids uid() has handed out
  tz,            \* the local timezone's offset from UTC, in clock steps
  appError       \* TRUE once an exception has escaped a handler or a render

timerVars == <<strictDev, settings, mode, secondsLeft, running, cyclesDone, timer>>
histVars == <<lastOp, lastArg, wasRunning, clean, ticks, workDone>>
habitVars == <<habits, now, nextId, habitOp, dayLog>>
shellVars == <<dark, todos, notes, nextTodo, tz, appError>>
appVars == <<shellVars, storage>>
vars == <<timerVars, histVars, habitVars, appVars>>

Modes == {"work", "short", "long"}

\* ------------------------------------------------------------- settings
DefaultSettings ==
  [work |-> DefaultWork, short |-> DefaultShort, long |-> DefaultLong, cycles |-> DefaultCycles]

\* Settings as the data model allows them: positive integers.
ValidSettings ==
  {DefaultSettings} \cup
  [work : 1..MaxMinutes, short : 1..MaxMinutes, long : 1..MaxMinutes, cycles : 1..MaxCycles]

\* Settings as a persisted record can hold them: loadState returns whatever
\* JSON.parse gives and usePomodoro takes it unchecked.
\* (The durations are what is varied here; cycles stays at its default.)
PersistedSettings ==
  [work : (0 - MaxNegMinutes)..MaxMinutes, short : (0 - MaxNegMinutes)..MaxMinutes,
   long : (0 - MaxNegMinutes)..MaxMinutes, cycles : {DefaultCycles}]

\* (mutant) x ?? d: a zero is not replaced.
JsNullish(x, d) == x

\* JavaScript x || d on integers: 0 is the only falsy integer.
JsOr(x, d) == IF x = 0 THEN d ELSE x

\* (mutant) the minutes are not converted to seconds.
WorkSecondsNoScale(st) == JsOr(st.work, FallbackWork)

\* (settings.work || 25) * 60
WorkSeconds(st) == JsOr(st.work, FallbackWork) * SecondsPerMinute

\* ((next === "long" ? settings.long : settings.short) || 5) * 60
BreakSeconds(next, st) ==
  JsOr(IF next = "long" THEN st.long ELSE st.short, FallbackBreak) * SecondsPerMinute

\* (mutant) the preset always loads the work duration.
PresetSecondsWork(k, st) == st.work * SecondsPerMinute

\* (settings[k] || settings.work) * 60
PresetSeconds(k, st) == JsOr(st[k], st.work) * SecondsPerMinute

\* cyclesDoneRef.current % settings.cycles === 0 ? "long" : "short"
NextBreak(c, st) == IF c % st.cycles = 0 THEN "long" ELSE "short"

\* (mutant) the effect returns no cleanup: an interval, once created, stays.
IntervalEffectNoCleanup(t, r) == t \/ r

\* The tick effect: its cleanup clears the old interval, and a new one is
\* created only while running.
IntervalEffect(t, r) == r

\* ------------------------------------------------------------ the updater
\* One invocation of the function given to setSecondsLeft by the interval
\* callback, with the callback's closure (m, st) and the ref's value c:
\* ret is what it returns, queued says whether it called setMode and
\* setSecondsLeft, qMode and qSeconds are their arguments, cycles is the
\* ref's value afterwards.
Updater(s, m, st, c) ==
  IF s <= 1
    THEN IF m = "work"
           THEN [ret |-> 0, queued |-> TRUE, qMode |-> NextBreak(c + 1, st),
                 qSeconds |-> BreakSeconds(NextBreak(c + 1, st), st), cycles |-> c + 1]
           ELSE [ret |-> 0, queued |-> TRUE, qMode |-> "work",
                 qSeconds |-> WorkSeconds(st), cycles |-> c]
    ELSE [ret |-> s - 1, queued |-> FALSE, qMode |-> m, qSeconds |-> s - 1, cycles |-> c]

\* How often React invokes an updater while rendering: once, and a second
\* time on the same previous state under <StrictMode> in a development build.
\* The later invocation's result and queued updates are the ones kept.
RunUpdater(strict, s, m, st, c) ==
  IF strict THEN Updater(s, m, st, Updater(s, m, st, c).cycles) ELSE Updater(s, m, st, c)

\* The state updates queued inside the updater are applied after its
\* return value.
SecondsAfter(u) == IF u.queued THEN u.qSeconds ELSE u.ret

\* ------------------------------------------------------- the JSON record
\* JSON text, as the value it denotes; Garbage is text JSON.parse rejects.
JNull == [t |-> "null"]
JBool(b) == [t |-> "bool", v |-> b]
JNum(n) == [t |-> "num", v |-> n]
JStr(x) == [t |-> "str", v |-> x]
JArr(xs) == [t |-> "arr", v |-> xs]
JObj(fs) == [t |-> "obj", v |-> fs]
Garbage == [t |-> "garbage"]

NoDay == 0 - 1           \* lastSeen: null

\* JSON.stringify of a habit: lastSeen is null or a "YYYY-MM-DD" string.
StringifyHabit(h) ==
  JObj([id |-> JStr(h.id), title |-> JStr(h.title), toggledToday |-> JBool(h.toggledToday),
        streak |-> JNum(h.streak),
        lastSeen |-> IF h.lastSeen = NoDay THEN JNull ELSE JStr(h.lastSeen)])

StringifyTodo(x) ==
  JObj([id |-> JStr(x.id), text |-> JStr(x.text), done |-> JBool(x.done),
        created |-> JNum(x.created)])

StringifySettings(st) ==
  JObj([work |-> JNum(st.work), short |-> JNum(st.short), long |-> JNum(st.long),
        cycles |-> JNum(st.cycles)])

\* (mutant) the record is written the way the export is: without notes.
StringifyNoNotes(o) ==
  JObj([dark |-> JBool(o.dark),
        todos |-> JArr([i \in 1..Len(o.todos) |-> StringifyTodo(o.todos[i])]),
        habits |-> JArr([i \in 1..Len(o.habits) |-> StringifyHabit(o.habits[i])]),
        pomodoro |-> StringifySettings(o.pomodoro)])

\* JSON.stringify({dark, todos, habits, notes, pomodoro: settings})
Stringify(o) ==
  JObj([dark |-> JBool(o.dark),
        todos |-> JArr([i \in 1..Len(o.todos) |-> StringifyTodo(o.todos[i])]),
        habits |-> JArr([i \in 1..Len(o.habits) |-> StringifyHabit(o.habits[i])]),
        notes |-> JStr(o.notes),
        pomodoro |-> StringifySettings(o.pomodoro)])

ParseHabit(j) ==
  [id |-> j.v.id.v, title |-> j.v.title.v, toggledToday |-> j.v.toggledToday.v,
   streak |-> j.v.streak.v,
   lastSeen |-> IF j.v.lastSeen.t = "null" THEN NoDay ELSE j.v.lastSeen.v]

ParseTodo(j) ==
  [id |-> j.v.id.v, text |-> j.v.text.v, done |-> j.v.done.v, created |-> j.v.created.v]

ParseSettings(j) ==
  [work |-> j.v.work.v, short |-> j.v.short.v, long |-> j.v.long.v, cycles |-> j.v.cycles.v]

\* JSON.parse of an object: the keys it has, each with its value.
Parse(j) ==
  [k \in DOMAIN j.v |->
     CASE k = "todos" -> [i \in 1..Len(j.v[k].v) |-> ParseTodo(j.v[k].v[i])]
       [] k = "habits" -> [i \in 1..Len(j.v[k].v) |-> ParseHabit(j.v[k].v[i])]
       [] k = "pomodoro" -> ParseSettings(j.v[k])
       [] OTHER -> j.v[k].v]

\* localStorage.setItem(STORAGE_KEY, JSON.stringify(state))
SaveState(o) == [present |-> TRUE, raw |-> Stringify(o)]

\* localStorage.removeItem(STORAGE_KEY)
RemoveItem == [present |-> FALSE, raw |-> JNull]

\* (mutant) loadState without its try/catch: the exception of JSON.parse escapes.
LoadStateNoCatch(stor) ==
  IF ~stor.present THEN [ok |-> FALSE, threw |-> FALSE]
  ELSE IF stor.raw.t = "garbage" THEN [ok |-> FALSE, threw |-> TRUE]
  ELSE [ok |-> TRUE, threw |-> FALSE, val |-> Parse(stor.raw)]

\* loadState: null when the key is not set and when JSON.parse throws.
LoadState(stor) ==
  IF ~stor.present THEN [ok |-> FALSE, threw |-> FALSE]
  ELSE IF stor.raw.t = "garbage" THEN [ok |-> FALSE, threw |-> FALSE]
  ELSE [ok |-> TRUE, threw |-> FALSE, val |-> Parse(stor.raw)]

\* persisted?.k ?? d
Field(p, k, d) == IF p.ok /\ k \in DOMAIN p.val THEN p.val[k] ELSE d

\* The state App and usePomodoro are constructed with.
Construct(p) ==
  [dark |-> Field(p, "dark", FALSE),
   todos |-> Field(p, "todos", <<>>),
   habits |-> Field(p, "habits", <<>>),
   notes |-> Field(p, "notes", ""),
   pomodoro |-> Field(p, "pomodoro", DefaultSettings),
   error |-> p.threw]

\* { dark, todos, habits, notes, pomodoro: settings }
Snapshot(d, ts, hs, n, st) ==
  [dark |-> d, todos |-> ts, habits |-> hs, notes |-> n, pomodoro |-> st]

\* (mutant) notes is missing from the persist effect's dependencies.
PersistEffectNoNotes(changed, stor, old, new) ==
  IF changed /\ old.notes = new.notes THEN SaveState(new) ELSE stor

\* The persist effect: it runs after a render in which one of dark, todos,
\* habits, notes, settings was replaced (changed), and saves the new state.
PersistEffect(changed, stor, old, new) == IF changed THEN SaveState(new) ELSE stor

\* The state as the persist effect's render sees it.
Current == Snapshot(dark, todos, habits, notes, settings)

\* (mutant) the pass clears every habit.
DailyResetAll(hs, today) ==
  [i \in 1..Len(hs) |-> [hs[i] EXCEPT !.toggledToday = FALSE]]

\* The daily-reset effect, run once when App is mounted.
DailyReset(hs, today) ==
  [i \in 1..Len(hs) |->
     [hs[i] EXCEPT !.toggledToday = IF hs[i].lastSeen = today THEN @ ELSE FALSE]]

\* new Date().toISOString().slice(0, 10): the UTC date of the instant t.
TodayKey(t) == t \div PartsPerDay

\* The calendar day of the instant t in the local timezone.
LocalDay(t, z) == ((t + z + MaxTz * PartsPerDay) \div PartsPerDay) - MaxTz

\* ---------------------------------------------------------------- Init
InitTimer(st) ==
  /\ settings = st
  /\ mode = "work"
  /\ secondsLeft = WorkSeconds(st)
  /\ running = FALSE
  /\ cyclesDone = 0
  /\ timer = IntervalEffect(FALSE, FALSE)
  /\ lastOp = "init"
  /\ lastArg = "none"
  /\ wasRunning = FALSE
  /\ clean = TRUE
  /\ ticks = 0
  /\ workDone = 0

\* No persisted record: persisted?.habits ?? [] is empty, and the daily-reset
\* effect maps over nothing.
InitHabits ==
  /\ habits = <<>>
  /\ now = 0
  /\ nextId = 0
  /\ habitOp = [op |-> "init", id |-> 0]
  /\ dayLog = <<>>

\* The rest of App for a timer constructed with the settings st: nothing
\* else stored, and the persist effect has run once on mount.
InitShell(st) ==
  /\ dark = FALSE
  /\ todos = <<>>
  /\ notes = ""
  /\ nextTodo = 0
  /\ tz = 0
  /\ appError = FALSE
  /\ storage = SaveState(Snapshot(FALSE, <<>>, <<>>, "", st))

\* What the storage can hold when the application is first opened.
BootStorages == {RemoveItem, [present |-> TRUE, raw |-> Garbage]}

\* App constructed from the storage stor at the instant 0 in the timezone z:
\* loadState, the useState initial values, and the mount effects (the
\* daily reset, then the persist effect).
Boot(stor, z) ==
  LET c == Construct(LoadState(stor)) IN
    /\ InitTimer(c.pomodoro)
    /\ now = 0
    /\ nextId = 0
    /\ habitOp = [op |-> IF ~stor.present THEN "bootAbsent" ELSE "bootGarbage", id |-> 0]
    /\ dayLog = <<>>
    /\ habits = DailyReset(c.habits, TodayKey(0))
    /\ dark = c.dark
    /\ todos = c.todos
    /\ notes = c.notes
    /\ nextTodo = 0
    /\ tz = z
    /\ appError = c.error
    /\ storage = SaveState(Snapshot(c.dark, c.todos, DailyReset(c.habits, TodayKey(0)),
                                    c.notes, c.pomodoro))

Init ==
  /\ strictDev \in BOOLEAN
  /\ \E st \in ValidSettings : InitTimer(st) /\ InitShell(st)
  /\ InitHabits

InitPersisted ==
  /\ strictDev \in BOOLEAN
  /\ \E st \in PersistedSettings : InitTimer(st) /\ InitShell(st)
  /\ InitHabits

InitApp ==
  /\ strictDev \in BOOLEAN
  /\ \E stor \in BootStorages : Boot(stor, 0)

InitDay ==
  /\ strictDev \in BOOLEAN
  /\ \E z \in (0 - MaxTz)..MaxTz : Boot(RemoveItem, z)

\* -------------------------------------------------------------- actions
Dirty == clean' = FALSE /\ ticks' = 0 /\ workDone' = 0

\* The Start button, rendered while !running.
Start ==
  /\ ~running
  /\ running' = TRUE
  /\ timer' = IntervalEffect(timer, running')
  /\ lastOp' = "start" /\ lastArg' = "none" /\ wasRunning' = running
  /\ UNCHANGED <<strictDev, settings, mode, secondsLeft, cyclesDone, clean, ticks, workDone, habitVars, appVars>>

\* The Pause button, rendered while running.
Pause ==
  /\ running
  /\ running' = FALSE
  /\ timer' = IntervalEffect(timer, running')
  /\ lastOp' = "pause" /\ lastArg' = "none" /\ wasRunning' = running
  /\ Dirty
  /\ UNCHANGED <<strictDev, settings, mode, secondsLeft, cyclesDone, habitVars, appVars>>

\* (mutant) reset() forgets the cycle counter.
ResetKeepsCycles ==
  /\ running' = FALSE
  /\ mode' = "work"
  /\ secondsLeft' = WorkSeconds(settings)
  /\ timer' = IntervalEffect(timer, running')
  /\ lastOp' = "reset" /\ lastArg' = "none" /\ wasRunning' = running
  /\ clean' = TRUE /\ ticks' = 0 /\ workDone' = 0
  /\ UNCHANGED <<strictDev, settings, cyclesDone, habitVars, appVars>>

Reset ==
  /\ running' = FALSE
  /\ cyclesDone' = 0
  /\ mode' = "work"
  /\ secondsLeft' = WorkSeconds(settings)
  /\ timer' = IntervalEffect(timer, running')
  /\ lastOp' = "reset" /\ lastArg' = "none" /\ wasRunning' = running
  /\ clean' = TRUE /\ ticks' = 0 /\ workDone' = 0
  /\ UNCHANGED <<strictDev, settings, habitVars, appVars>>

SetPreset(k) ==
  /\ mode' = k
  /\ secondsLeft' = PresetSeconds(k, settings)
  /\ running' = FALSE
  /\ timer' = IntervalEffect(timer, running')
  /\ lastOp' = "preset" /\ lastArg' = k /\ wasRunning' = running
  /\ Dirty
  /\ UNCHANGED <<strictDev, settings, cyclesDone, habitVars, appVars>>

\* The interval callback, one second after the previous one.
Tick ==
  /\ timer
  /\ cyclesDone < MaxCyclesDone
  /\ LET u == RunUpdater(strictDev, secondsLeft, mode, settings, cyclesDone) IN
       /\ secondsLeft' = SecondsAfter(u)
       /\ mode' = u.qMode
       /\ cyclesDone' = u.cycles
       /\ lastOp' = IF u.queued THEN "transition" ELSE "tick"
       /\ lastArg' = "none" /\ wasRunning' = running
       /\ workDone' = IF clean /\ u.queued /\ mode = "work" THEN workDone + 1 ELSE workDone
  /\ ticks' = IF clean /\ ticks <= WorkSeconds(settings) THEN ticks + 1 ELSE ticks
  /\ timer' = IntervalEffect(timer, running)
  /\ UNCHANGED <<strictDev, settings, running, clean, habitVars, appVars>>

Next ==
  \/ Start
  \/ Pause
  \/ Reset
  \/ \E k \in Modes : SetPreset(k)
  \/ Tick

Spec == Init /\ [][Next]_vars

SpecPersisted == InitPersisted /\ [][Next]_vars

\* -------------------------------------------------------------- habits
\* title.trim() on the titles tried here.
Trim(t) == IF t = " " THEN "" ELSE IF t = " read" THEN "read" ELSE t

Titles == {"", " ", "read", " read"}

Ids == {habits[i].id : i \in 1..Len(habits)}

\* (mutant) toggleHabit only ever switches on.
HabitToggledAlwaysOn(h, today) == TRUE

\* !(h.lastSeen === todayKey && h.toggledToday)
HabitToggled(h, today) == ~(h.lastSeen = today /\ h.toggledToday)

\* (mutant) toggleHabit never counts a day.
HabitStreakFrozen(h, today) == h.streak

\* (mutant) every switch-on counts, also a second one on the same day.
HabitStreakEveryOn(h, today) ==
  IF HabitToggled(h, today) THEN h.streak + 1 ELSE h.streak

\* toggled && h.lastSeen === todayKey ? h.streak : toggled ? h.streak + 1 : h.streak
HabitStreak(h, today) ==
  IF HabitToggled(h, today) /\ h.lastSeen = today THEN h.streak
  ELSE IF HabitToggled(h, today) THEN h.streak + 1
  ELSE h.streak

\* The function toggleHabit maps over the list.
ToggleOne(h, id, today) ==
  IF h.id # id THEN h
  ELSE [h EXCEPT !.toggledToday = HabitToggled(h, today),
                 !.lastSeen = today,
                 !.streak = HabitStreak(h, today)]

AddHabit(title) ==
  /\ nextId < MaxHabits
  /\ Trim(title) # ""
  /\ habits' = Append(habits, [id |-> nextId + 1, title |-> Trim(title),
                               toggledToday |-> FALSE, streak |-> 0, lastSeen |-> NoDay])
  /\ nextId' = nextId + 1
  /\ habitOp' = [op |-> "add", id |-> nextId + 1]
  /\ dayLog' = Append(dayLog, [calls |-> 0, base |-> 0, days |-> {}])
  /\ storage' = PersistEffect(TRUE, storage, Current, Snapshot(dark, todos, habits', notes, settings))
  /\ UNCHANGED <<timerVars, histVars, now, shellVars>>

ToggleHabit(id) ==
  /\ dayLog[id].calls < MaxCalls
  /\ habits' = [i \in 1..Len(habits) |-> ToggleOne(habits[i], id, TodayKey(now))]
  /\ habitOp' = [op |-> "toggle", id |-> id]
  /\ dayLog' = [dayLog EXCEPT ![id] =
       LET h == CHOOSE x \in {habits[i] : i \in 1..Len(habits)} : x.id = id IN
         IF h.lastSeen = TodayKey(now)
           THEN [calls |-> @.calls + 1, base |-> @.base, days |-> @.days]
           ELSE [calls |-> 1, base |-> h.streak, days |-> @.days \cup {TodayKey(now)}]]
  /\ storage' = PersistEffect(TRUE, storage, Current, Snapshot(dark, todos, habits', notes, settings))
  /\ UNCHANGED <<timerVars, histVars, now, nextId, shellVars>>

DeleteHabit(id) ==
  /\ habits' = SelectSeq(habits, LAMBDA h : h.id # id)
  /\ habitOp' = [op |-> "delete", id |-> id]
  /\ storage' = PersistEffect(TRUE, storage, Current, Snapshot(dark, todos, habits', notes, settings))
  /\ UNCHANGED <<timerVars, histVars, now, nextId, dayLog, shellVars>>

\* Time passes.
AdvanceClock ==
  /\ now < MaxNow
  /\ now' = now + 1
  /\ habitOp' = [op |-> "clock", id |-> 0]
  /\ dayLog' = [i \in 1..Len(dayLog) |->
       IF TodayKey(now') # TodayKey(now)
         THEN [calls |-> 0, base |-> 0, days |-> dayLog[i].days] ELSE dayLog[i]]
  /\ UNCHANGED <<timerVars, histVars, habits, nextId, appVars>>

\* The page is closed and opened again: App is constructed from the stored
\* record and its mount effects run (the daily reset, then the persist effect).
Reload ==
  LET c == Construct(LoadState(storage)) IN
    /\ settings' = c.pomodoro
    /\ mode' = "work"
    /\ secondsLeft' = WorkSeconds(c.pomodoro)
    /\ running' = FALSE
    /\ cyclesDone' = 0
    /\ timer' = IntervalEffect(FALSE, FALSE)
    /\ lastOp' = "init" /\ lastArg' = "none" /\ wasRunning' = FALSE
    /\ clean' = TRUE /\ ticks' = 0 /\ workDone' = 0
    /\ habits' = DailyReset(c.habits, TodayKey(now))
    /\ dark' = c.dark
    /\ todos' = c.todos
    /\ notes' = c.notes
    /\ appError' = (appError \/ c.error)
    /\ storage' = SaveState(Snapshot(dark', todos', habits', notes', settings'))
    /\ habitOp' = [op |-> "reload",
                   id |-> Cardinality({i \in 1..Len(habits') :
                            c.habits[i].toggledToday /\ ~habits'[i].toggledToday})]
    /\ UNCHANGED <<strictDev, now, nextId, nextTodo, tz, dayLog>>

NextHabits ==
  \/ \E title \in Titles : AddHabit(title)
  \/ \E id \in Ids : ToggleHabit(id)
  \/ \E id \in Ids : DeleteHabit(id)
  \/ AdvanceClock
  \/ Reload

SpecHabits == InitApp /\ [][NextHabits]_vars

\* The same handlers in a process whose timezone is not UTC.
SpecDay == InitDay /\ [][NextHabits]_vars

\* ------------------------------------------------- todos, notes, theme
NoteTexts == {"", "memo"}

TodoIds == {todos[i].id : i \in 1..Len(todos)}

\* setDark((d) => !d)
ToggleDark ==
  /\ dark' = ~dark
  /\ habitOp' = [op |-> "dark", id |-> 0]
  /\ storage' = PersistEffect(TRUE, storage, Current, Snapshot(dark', todos, habits, notes, settings))
  /\ UNCHANGED <<timerVars, histVars, habits, now, nextId, dayLog,
                 todos, notes, nextTodo, tz, appError>>

AddTodo(text) ==
  /\ nextTodo < MaxTodos
  /\ Trim(text) # ""
  /\ todos' = <<[id |-> nextTodo + 1, text |-> Trim(text), done |-> FALSE, created |-> now]>>
                 \o todos
  /\ nextTodo' = nextTodo + 1
  /\ habitOp' = [op |-> "addTodo", id |-> nextTodo + 1]
  /\ storage' = PersistEffect(TRUE, storage, Current, Snapshot(dark, todos', habits, notes, settings))
  /\ UNCHANGED <<timerVars, histVars, habits, now, nextId, dayLog,
                 dark, notes, tz, appError>>

ToggleTodo(id) ==
  /\ todos' = [i \in 1..Len(todos) |->
       IF todos[i].id = id THEN [todos[i] EXCEPT !.done = ~@] ELSE todos[i]]
  /\ habitOp' = [op |-> "toggleTodo", id |-> id]
  /\ storage' = PersistEffect(TRUE, storage, Current, Snapshot(dark, todos', habits, notes, settings))
  /\ UNCHANGED <<timerVars, histVars, habits, now, nextId, dayLog,
                 dark, notes, nextTodo, tz, appError>>

DelTodo(id) ==
  /\ todos' = SelectSeq(todos, LAMBDA x : x.id # id)
  /\ habitOp' = [op |-> "delTodo", id |-> id]
  /\ storage' = PersistEffect(TRUE, storage, Current, Snapshot(dark, todos', habits, notes, settings))
  /\ UNCHANGED <<timerVars, histVars, habits, now, nextId, dayLog,
                 dark, notes, nextTodo, tz, appError>>

\* setNotes(text): React re-renders only when the text differs.
SaveNotes(text) ==
  /\ notes' = text
  /\ habitOp' = [op |-> "notes", id |-> 0]
  /\ storage' = PersistEffect(text # notes, storage, Current,
                              Snapshot(dark, todos, habits, notes', settings))
  /\ UNCHANGED <<timerVars, histVars, habits, now, nextId, dayLog,
                 dark, todos, nextTodo, tz, appError>>

\* The Clear Data button; ok is the answer to confirm(). The three setters
\* are given new values ([] is a new array), removeItem runs in the handler,
\* and the persist effect runs after the render that follows.
ClearData(ok) ==
  IF ok
    THEN /\ todos' = <<>>
         /\ habits' = <<>>
         /\ notes' = ""
         /\ storage' = PersistEffect(TRUE, RemoveItem, Current,
                                     Snapshot(dark, todos', habits', notes', settings))
         /\ habitOp' = [op |-> "clear", id |-> 0]
         /\ UNCHANGED <<timerVars, histVars, now, nextId, dayLog,
                        dark, nextTodo, tz, appError>>
    ELSE UNCHANGED vars

NextApp ==
  \/ ToggleDark
  \/ \E text \in Titles : AddTodo(text)
  \/ \E id \in TodoIds : ToggleTodo(id)
  \/ \E id \in TodoIds : DelTodo(id)
  \/ \E text \in NoteTexts : SaveNotes(text)
  \/ \E title \in Titles : AddHabit(title)
  \/ \E id \in Ids : ToggleHabit(id)
  \/ \E ok \in BOOLEAN : ClearData(ok)
  \/ Reload

SpecApp == InitApp /\ [][NextApp]_vars

\* ======================================================== timer claims
\* The configured duration of mode m, in seconds.
ConfiguredSeconds(m, st) == st[m] * SecondsPerMinute

TickOps == {"tick", "transition"}

\* C1: from a fresh timer with positive durations, while no pause, reset or
\* setPreset intervenes, the mode is still work after fewer than
\* workMinutes*60 ticks, and after exactly workMinutes*60 ticks the mode is
\* short-break (long-break if cyclesPerLongBreak = 1), secondsRemaining is
\* that mode's full configured duration and isRunning is true.
C1_FreshWorkPhase ==
  (clean /\ lastOp \in TickOps) =>
    /\ (ticks < ConfiguredSeconds("work", settings) => mode = "work")
    /\ (ticks = ConfiguredSeconds("work", settings) =>
          /\ mode = (IF settings.cycles = 1 THEN "long" ELSE "short")
          /\ secondsLeft = ConfiguredSeconds(mode, settings)
          /\ running)

\* C2: from a fresh or reset timer running without pause, reset or setPreset,
\* the break that follows the k-th exhausted work phase is long-break for
\* k = cyclesPerLongBreak and short-break for every k < cyclesPerLongBreak.
C2_LongBreakAfterNth ==
  (clean /\ mode # "work" /\ workDone \in 1..settings.cycles) =>
    mode = (IF workDone = settings.cycles THEN "long" ELSE "short")

\* C3: every tick leaves isRunning true, and the tick that exhausts a
\* short-break or a long-break switches to work with
\* secondsRemaining = workMinutes*60.
C3_NeverStopsItself ==
  [][lastOp' \in TickOps =>
       /\ running'
       /\ (mode # "work" /\ secondsLeft <= 1) =>
            (mode' = "work" /\ secondsLeft' = ConfiguredSeconds("work", settings))]_vars

\* A tick counts down in a work phase that was entered from a break.
C3_Witness ==
  clean /\ lastOp = "tick" /\ mode = "work" /\ workDone >= 1 /\ running

C5_ResetRestores ==
  [][lastOp' = "reset" =>
       /\ mode' = "work"
       /\ secondsLeft' = ConfiguredSeconds("work", settings)
       /\ ~running'
       /\ cyclesDone' = 0]_vars

\* reset() was called on a running timer.
C5_Witness == lastOp = "reset" /\ wasRunning /\ ~running /\ ~timer /\ cyclesDone = 0

\* C6: setPreset(m) yields mode = m, secondsRemaining = the configured
\* duration of m and isRunning = false, also when called while running.
C6_PresetLoads ==
  [][lastOp' = "preset" =>
       /\ mode' = lastArg'
       /\ secondsLeft' = ConfiguredSeconds(lastArg', settings)
       /\ ~running']_vars

\* setPreset("long") was called on a running timer that had finished a phase.
C6_Witness ==
  /\ lastOp = "preset" /\ lastArg = "long" /\ wasRunning
  /\ mode = "long" /\ cyclesDone >= 1 /\ ~running

\* C7: whatever the settings given at construction, secondsRemaining is never
\* negative and every duration loaded by construction, a transition, reset()
\* or setPreset() is greater than zero.
C7_NoBadCountdown ==
  /\ secondsLeft >= 0
  /\ lastOp \in {"init", "transition", "reset", "preset"} => secondsLeft > 0

C19_CounterSteps ==
  [][/\ (lastOp' = "transition" /\ mode = "work") => cyclesDone' = cyclesDone + 1
     /\ lastOp' = "reset" => cyclesDone' = 0
     /\ ~(lastOp' = "transition" /\ mode = "work") /\ lastOp' # "reset" =>
          cyclesDone' = cyclesDone]_vars

\* ======================================================== habit claims
Odd(n) == n % 2 = 1

\* C9: toggleToday on a habit gives toggledToday = NOT (lastSeenDay = today
\* AND toggledToday); streak + 1 when it turns on and lastSeenDay # today,
\* streak unchanged when it turns on with lastSeenDay = today and when it
\* turns off; lastSeenDay = today; every other habit is unchanged.
C9_ToggleToday ==
  [][habitOp'.op = "toggle" =>
       /\ Len(habits') = Len(habits)
       /\ \A i \in 1..Len(habits) :
            LET h == habits[i]
                g == habits'[i]
                today == TodayKey(now)
                on == ~(h.lastSeen = today /\ h.toggledToday)
            IN IF h.id = habitOp'.id
                 THEN /\ g.toggledToday = on
                      /\ g.streak = (IF on /\ h.lastSeen # today THEN h.streak + 1 ELSE h.streak)
                      /\ g.lastSeen = today
                      /\ g.id = h.id /\ g.title = h.title
                 ELSE g = h]_vars

\* A habit was switched on again on a day it had been switched off, on its
\* second day, beside another habit.
C9_Witness ==
  /\ habitOp.op = "toggle" /\ Len(habits) = 2
  /\ \E i \in 1..Len(habits) :
       /\ habits[i].id = habitOp.id /\ habits[i].toggledToday
       /\ habits[i].streak = 2 /\ dayLog[habits[i].id].calls = 3

\* C10 as stated: after n >= 1 calls of toggleToday on one habit on a single
\* day, toggledToday is true exactly when n is odd, and the streak has
\* increased by exactly 1 if and only if the net result is on (no call of
\* that day having been recorded before the first one), and is unchanged
\* otherwise.
C10_StreakIffNetOn ==
  \A i \in 1..Len(habits) :
    LET h == habits[i]
        log == dayLog[h.id]
    IN (log.calls >= 1 /\ h.lastSeen = TodayKey(now)) =>
         /\ h.toggledToday <=> Odd(log.calls)
         /\ h.streak = (IF h.toggledToday THEN log.base + 1 ELSE log.base)

\* C10 as amended: toggledToday is true exactly when n is odd, and the streak
\* has increased by exactly 1 whatever the net result: the first call of the
\* day adds 1 and no later call of that day changes it.
C10_SingleDay ==
  \A i \in 1..Len(habits) :
    LET h == habits[i]
        log == dayLog[h.id]
    IN (log.calls >= 1 /\ h.lastSeen = TodayKey(now)) =>
         /\ h.toggledToday <=> Odd(log.calls)
         /\ h.streak = log.base + 1

\* Two calls on a habit's second day: off again, the streak one higher.
C10_Witness ==
  \E i \in 1..Len(habits) :
    /\ dayLog[habits[i].id].calls = 2 /\ habits[i].lastSeen = TodayKey(now)
    /\ ~habits[i].toggledToday /\ dayLog[habits[i].id].base = 1 /\ habits[i].streak = 2

\* The largest day of a non-empty set of days, and the number of days of the
\* set that end at the day d without a gap.
LastDay(S) == CHOOSE d \in S : \A e \in S : e <= d

RECURSIVE RunEnding(_, _)
RunEnding(d, S) == IF d \in S THEN 1 + RunEnding(d - 1, S) ELSE 0

\* C11 as stated: a habit's streak is the number of consecutive distinct
\* calendar days, with no gap day between them, on which it was toggled on
\* (the run of such days that ends at the last of them).
C11_ConsecutiveDays ==
  \A i \in 1..Len(habits) :
    LET days == dayLog[habits[i].id].days
    IN habits[i].streak = (IF days = {} THEN 0 ELSE RunEnding(LastDay(days), days))

\* C11 as amended: a habit's streak is the number of distinct calendar days
\* on which it was toggled on, whatever the gaps between them.
C11_DistinctDays ==
  \A i \in 1..Len(habits) :
    habits[i].streak = Cardinality(dayLog[habits[i].id].days)

\* A habit toggled on day 0 and again on day 2, not on day 1: streak 2.
C11_Witness ==
  \E i \in 1..Len(habits) :
    /\ dayLog[habits[i].id].days = {0, 2} /\ habits[i].streak = 2
    /\ habitOp = [op |-> "toggle", id |-> habits[i].id]

\* C12: in every reachable state, also after the day changes while the
\* application keeps running, a habit whose lastSeenDay is not the current
\* day has toggledToday = false in the state that is rendered.
C12_StaleNotShown ==
  \A i \in 1..Len(habits) :
    habits[i].lastSeen # TodayKey(now) => ~habits[i].toggledToday

\* C13: the daily-reset pass at application start sets toggledToday to false
\* for every habit with lastSeenDay # today and keeps it for every habit with
\* lastSeenDay = today; streak, lastSeenDay, id and title are unchanged and no
\* habit is added, removed or reordered.
C13_DailyResetPass ==
  [][habitOp'.op = "reload" =>
       /\ Len(habits') = Len(habits)
       /\ \A i \in 1..Len(habits) :
            LET h == habits[i]
                g == habits'[i]
            IN /\ g.toggledToday = (h.lastSeen = TodayKey(now) /\ h.toggledToday)
               /\ g.streak = h.streak /\ g.lastSeen = h.lastSeen
               /\ g.id = h.id /\ g.title = h.title]_vars

\* A start on which the pass switched one habit off and kept another on.
C13_Witness ==
  /\ habitOp = [op |-> "reload", id |-> 1] /\ Len(habits) = 2
  /\ \E i, j \in 1..Len(habits) :
       /\ habits[i].lastSeen # TodayKey(now) /\ ~habits[i].toggledToday
       /\ habits[i].streak >= 1
       /\ habits[j].lastSeen = TodayKey(now) /\ habits[j].toggledToday

\* ========================================================== app claims
\* C14: once the application has settled after a confirmed Clear Data, todos,
\* habits and notes are empty and no record exists under "dailyflow_v1".
C14_ClearErases ==
  habitOp.op = "clear" =>
    todos = <<>> /\ habits = <<>> /\ notes = "" /\ ~storage.present

\* C15: whenever the application has settled after a mutation of theme,
\* todos, habits, notes or settings, the record under "dailyflow_v1" is the
\* complete current state {dark, todos, habits, notes, pomodoro}.
C15_RecordIsCurrent ==
  habitOp.op \in {"dark", "addTodo", "toggleTodo", "delTodo", "notes", "add", "toggle"} =>
    storage = [present |-> TRUE, raw |-> Stringify(Current)]

\* Notes were typed over a record that held a done todo, a habit and the
\* dark theme.
C15_Witness ==
  /\ habitOp.op = "notes" /\ notes = "memo" /\ dark
  /\ Len(todos) = 1 /\ todos[1].done /\ Len(habits) >= 1

\* C16: on startup with the record absent or unparsable the application
\* starts with the default state (dark false, no todos, no habits, empty
\* notes, settings 25 / 5 / 15 / 4, timer in work mode and not running) and
\* no error reaches the user.
C16_DefaultsOnBadRecord ==
  habitOp.op \in {"bootAbsent", "bootGarbage"} =>
    /\ ~dark /\ todos = <<>> /\ habits = <<>> /\ notes = ""
    /\ settings = [work |-> DefaultWork, short |-> DefaultShort,
                   long |-> DefaultLong, cycles |-> DefaultCycles]
    /\ mode = "work" /\ ~running /\ ~timer
    /\ ~appError

\* The application just started on a record JSON.parse rejects.
C16_Witness == habitOp.op = "bootGarbage" /\ secondsLeft = DefaultWork * SecondsPerMinute

\* Every settings record the storage can hold survives stringify and parse.
SettingsRoundTrip ==
  \A st \in PersistedSettings : ParseSettings(StringifySettings(st)) = st

C18_LocalDayKey ==
  [][now' # now =>
       ((TodayKey(now') = TodayKey(now)) <=> (LocalDay(now', tz) = LocalDay(now, tz)))]_vars

====
